---- MODULE Spec2Model ----
(***************************************************************************)
(* One replication of the gas station simulation (src/simulation.py) with  *)
(* its statistics accumulator (src/stats.py).                               *)
(*                                                                         *)
(* The simulation kernel is the simpy library: an event queue ordered by   *)
(* (time, priority, insertion order), processes that are resumed when the  *)
(* event they wait for is popped, and capacity-1 Resources whose request   *)
(* and release are themselves events.  Each action below is one event      *)
(* popped from the queue together with every callback it runs.  The only   *)
(* places where a callback is cut in two are the three resampling loops    *)
(* of Car.run (lines 78, 102, 116): one more action per loop iteration,    *)
(* during which nothing else may run.                                       *)
(*                                                                         *)
(* Litres and minutes are integers.  THRESHOLD and CAR_TANK_LIMITS have    *)
(* the source's values.  The number of pumps, the size of the tank and     *)
(* the horizon are bounds of the model, smaller than the source's 4,       *)
(* 72000 and 1440: a queue of two behind a holder needs 2 * NUM_PUMPS + 1  *)
(* vehicles present at once, the tank reaches the threshold only after     *)
(* 80% of it was handed out in fills of at most 140 litres, and the        *)
(* arrivals reach the horizon only after SIM_TIME / 84.2 draws of          *)
(* random.expovariate(LAMBDA_PARAM), whose largest value is 84.18.          *)
(***************************************************************************)
EXTENDS Integers, Sequences, FiniteSets

\* ------------------------------------------------------------ configuration
\* simulation.py:30
THRESHOLD == 20
\* simulation.py:31, CAR_TANK_LIMITS[0]
CAR_TANK_MIN == 9
\* simulation.py:31, CAR_TANK_LIMITS[1]
CAR_TANK_MAX == 140
\* simulation.py:171, simpy.Resource(env, capacity=1)
capacity == 1

\* ------------------------------------------------------------------ bounds
\* pumps of the station modelled (simulation.py:28 has 4)
NUM_PUMPS == 2
\* litres in the full tank modelled (simulation.py:29 has 72000)
STATION_TANK_SIZE == 150
\* minutes of the replication modelled (simulation.py:32 has 1440)
SIM_TIME == 2
\* vehicles the generator creates before the model stops it
MaxCars == 5
\* iterations of one resampling loop the model follows
MaxRedraws == 2

\* values random.expovariate(LAMBDA_PARAM) returns (simulation.py:140): each is
\* -log(1.0 - k * 2^-53) / LAMBDA_PARAM for some k, which 3 for one is not
InterArrivalDraws == {0, 1, 2}
\* values random.normalvariate may return for fuel_required (simulation.py:77)
FuelDraws == {8, 9, 140, 141}
\* values random.normalvariate may return for service_time (simulation.py:100)
ServiceDraws == {-1, 0, 1}

Cars == 0 .. (MaxCars - 1)
Pumps == 0 .. (NUM_PUMPS - 1)
NoPump == -1
Never == -1

\* simpy event priorities
URGENT == 0
NORMAL == 1

VARIABLES
    now,            \* env.now
    evq,            \* env._queue, in pop order
    users,          \* users[p]: gas_station[p].users
    queue,          \* queue[p]: gas_station[p].queue (put_queue)
    REMAINING_FUEL, \* the global tank level
    triggered,      \* not_fuel_remaining.triggered
    main_triggered, \* main_event.triggered
    stats,          \* the ClientStatsAccumulator
    pc,             \* pc[c]: where Car c's process is
    gas_pump,       \* Car.run local, per car
    arrival_time,   \* Car.arrival_time
    fuel_required,  \* Car.run local, per car
    next_car,       \* i of car_generator
    redraws,        \* iterations done by the resampling loop now running
    outcome,        \* of env.run and of the collection after it
    run_data,       \* the four averages, as <<numerator, denominator>>
    \* history, read by the properties only
    reqOrder,       \* reqOrder[p]: cars in the order they requested pump p
    resumeOrder,    \* resumeOrder[p]: cars in the order they resumed past yield req
    fill,           \* fill[c]: "none", "full" or "partial"
    closedAt,       \* env.now when not_fuel_remaining.succeed() was called
    maxQueued,      \* maxQueued[p]: the longest put_queue pump p has had
    calls           \* the accumulator's add/serve/leave calls, <<op, now>>

vars == <<now, evq, users, queue, REMAINING_FUEL, triggered, main_triggered,
          stats, pc, gas_pump, arrival_time, fuel_required, next_car, redraws,
          outcome, run_data, reqOrder, resumeOrder, fill, closedAt, maxQueued,
          calls>>

\* ------------------------------------------------------------ stats.py
ClientStatsAccumulator ==
    [time_on_queue |-> <<>>, time_on_system |-> <<>>,
     current_clients_on_queue |-> 0, current_clients_on_system |-> 0,
     last_change_on_queue |-> 0, last_change_on_system |-> 0,
     accum_queue |-> 0, accum_system |-> 0]

add_time_on_queue(s, time) ==
    [s EXCEPT !.time_on_queue = Append(@, time)]

add_time_on_system(s, time) ==
    [s EXCEPT !.time_on_system = Append(@, time)]

add_new_client(s, t) ==
    [s EXCEPT
       !.accum_queue = @ + s.current_clients_on_queue * (t - s.last_change_on_queue),
       !.accum_system = @ + s.current_clients_on_system * (t - s.last_change_on_system),
       !.last_change_on_queue = t,
       !.last_change_on_system = t,
       !.current_clients_on_queue = @ + 1,
       !.current_clients_on_system = @ + 1]

\* serve_client taking the vehicle off the system count instead of the queue
\* count
serve_client_off_system(s, t) ==
    [s EXCEPT
       !.accum_queue = @ + s.current_clients_on_queue * (t - s.last_change_on_queue),
       !.last_change_on_queue = t,
       !.current_clients_on_system = @ - 1]

\* serve_client decrementing the count without accumulating the elapsed segment
serve_client_without_segment(s, t) ==
    [s EXCEPT !.current_clients_on_queue = @ - 1]

serve_client(s, t) ==
    [s EXCEPT
       !.accum_queue = @ + s.current_clients_on_queue * (t - s.last_change_on_queue),
       !.last_change_on_queue = t,
       !.current_clients_on_queue = @ - 1]

leave_system(s, t) ==
    [s EXCEPT
       !.accum_system = @ + s.current_clients_on_system * (t - s.last_change_on_system),
       !.last_change_on_system = t,
       !.current_clients_on_system = @ - 1]

RECURSIVE SumSeq(_)
SumSeq(xs) == IF xs = <<>> THEN 0 ELSE Head(xs) + SumSeq(Tail(xs))

\* A quotient a / b is kept as the pair <<a, b>>; b = 0 is Python's
\* ZeroDivisionError.
get_average_clients_on_queue(s, total_time) == <<s.accum_queue, total_time>>

get_average_clients_on_system(s, total_time) == <<s.accum_system, total_time>>

\* get_average_time_on_queue answering 0 when no sample was recorded
get_average_time_on_queue_or_zero(s) ==
    IF s.time_on_queue = <<>> THEN <<0, 1>>
    ELSE <<SumSeq(s.time_on_queue), Len(s.time_on_queue)>>

get_average_time_on_queue(s) == <<SumSeq(s.time_on_queue), Len(s.time_on_queue)>>

get_average_time_on_system(s) == <<SumSeq(s.time_on_system), Len(s.time_on_system)>>

Raises(quotient) == quotient[2] = 0

\* ------------------------------------------------------------ the event queue
Ev(t, prio, kind, who) == [time |-> t, prio |-> prio, kind |-> kind, who |-> who]

\* env.schedule: the heap pops by (time, priority, insertion order)
Schedule(q, ev) ==
    LET k == Cardinality({i \in 1 .. Len(q) :
                 \/ q[i].time < ev.time
                 \/ q[i].time = ev.time /\ q[i].prio <= ev.prio})
    IN  SubSeq(q, 1, k) \o <<ev>> \o SubSeq(q, k + 1, Len(q))

\* ------------------------------------------------------------ Car.run, pure parts
\* the comparison with >= in place of >
AboveThresholdOrAt(level) == level * 100 >= THRESHOLD * STATION_TANK_SIZE

\* the level compared with THRESHOLD as if THRESHOLD were litres
AboveThresholdLitres(level) == level > THRESHOLD

\* simulation.py:87 and :96, (level / STATION_TANK_SIZE) * 100 > THRESHOLD
AboveThreshold(level) == level * 100 > THRESHOLD * STATION_TANK_SIZE

\* simulation.py:111, STATION_TANK_SIZE * (THRESHOLD/100), in whole litres
ThresholdAmount == (STATION_TANK_SIZE * THRESHOLD) \div 100

\* simulation.py:78, the condition that ends the loop
InLimits(v) == ~(v < CAR_TANK_MIN \/ v > CAR_TANK_MAX)

\* Granted without the partial-fill branch of lines 108-112
GrantedWithoutPartialFill(level, fr) == fr

\* Granted handing out all that is left in the partial-fill branch
GrantedAllRemaining(level, fr) ==
    IF level * 100 - fr * 100 > THRESHOLD * STATION_TANK_SIZE THEN fr ELSE level

\* Granted with the operands of line 111 exchanged
GrantedThresholdMinusLevel(level, fr) ==
    IF AboveThreshold(level - fr) THEN fr ELSE ThresholdAmount - level

\* Granted with the full fill chosen on the level before the deduction
GrantedOnCurrentLevel(level, fr) ==
    IF AboveThreshold(level) /\ level >= fr THEN fr ELSE level - ThresholdAmount

\* simulation.py:96-112: the litres deducted from a tank at `level` for a
\* vehicle that drew `fr`
Granted(level, fr) ==
    IF AboveThreshold(level - fr) THEN fr ELSE level - ThresholdAmount

\* simulation.py:70, the key of min
Load(u, q, p) == Len(u[p]) + Len(q[p])

\* MinPump keeping the last of the least loaded pumps instead of the first
RECURSIVE MinPumpLast(_, _, _, _)
MinPumpLast(u, q, i, best) ==
    IF i >= NUM_PUMPS THEN best
    ELSE IF Load(u, q, i) <= Load(u, q, best) THEN MinPumpLast(u, q, i + 1, i)
         ELSE MinPumpLast(u, q, i + 1, best)

\* Python's min over the list gas_station: the first element whose key is
\* smaller than the best so far replaces it
RECURSIVE MinPump(_, _, _, _)
MinPump(u, q, i, best) ==
    IF i >= NUM_PUMPS THEN best
    ELSE IF Load(u, q, i) < Load(u, q, best) THEN MinPump(u, q, i + 1, i)
         ELSE MinPump(u, q, i + 1, best)

SelectPump(u, q) == MinPump(u, q, 1, 0)

\* _do_put without its capacity test
DoPutAlwaysAdmits(u) == TRUE

\* Resource._do_put: the head of put_queue is admitted when a slot is free
DoPutAdmits(u) == Len(u) < capacity

\* _trigger_put trying the request appended last
PutLast(pq) == pq[Len(pq)]

\* Resource._trigger_put: the request it tries is put_queue[0]
PutHead(pq) == Head(pq)

\* list.remove(x)
RECURSIVE Remove(_, _)
Remove(xs, x) ==
    IF xs = <<>> THEN <<>>
    ELSE IF Head(xs) = x THEN Tail(xs)
         ELSE <<Head(xs)>> \o Remove(Tail(xs), x)

\* ------------------------------------------------------------ initial state
Init ==
    /\ now = 0
    \* line 174: the generator's Initialize event; line 177: the horizon timeout
    /\ evq = <<Ev(0, URGENT, "gen_init", 0), Ev(SIM_TIME, NORMAL, "horizon", 0)>>
    /\ users = [p \in Pumps |-> <<>>]
    /\ queue = [p \in Pumps |-> <<>>]
    /\ REMAINING_FUEL = STATION_TANK_SIZE
    /\ triggered = FALSE
    /\ main_triggered = FALSE
    /\ stats = ClientStatsAccumulator
    /\ pc = [c \in Cars |-> "unborn"]
    /\ gas_pump = [c \in Cars |-> NoPump]
    /\ arrival_time = [c \in Cars |-> 0]
    /\ fuel_required = [c \in Cars |-> 0]
    /\ next_car = 0
    /\ redraws = 0
    /\ outcome = "running"
    /\ run_data = <<>>
    /\ reqOrder = [p \in Pumps |-> <<>>]
    /\ resumeOrder = [p \in Pumps |-> <<>>]
    /\ fill = [c \in Cars |-> "none"]
    /\ closedAt = Never
    /\ maxQueued = [p \in Pumps |-> 0]
    /\ calls = <<>>

\* ------------------------------------------------------------ helpers of the actions
\* not_fuel_remaining.processed (its callbacks have run) in place of .triggered
StationClosedOnceProcessed ==
    triggered /\ \A i \in 1 .. Len(evq) : evq[i].kind # "closed"

\* simulation.py:64, not_fuel_remaining.triggered
StationClosed == triggered

MidStep == \E c \in Cars : pc[c] \in {"l78", "l102", "l116"}

\* env.step may pop the next event
Ready == outcome = "running" /\ ~MidStep /\ evq # <<>>

Next1 == Head(evq)

\* simulation.py:81-83: gas_pump.request() and yield req.  Put.__init__ appends
\* to put_queue and calls _trigger_put, which tries the head of put_queue.
RequestPump(c, p, q0, t) ==
    LET pq == Append(queue[p], c)
        h  == PutHead(pq)
    IN  /\ pc' = [pc EXCEPT ![c] = "l83"]
        /\ reqOrder' = [reqOrder EXCEPT ![p] = Append(@, c)]
        /\ maxQueued' = [maxQueued EXCEPT ![p] = IF Len(pq) > @ THEN Len(pq) ELSE @]
        /\ redraws' = 0
        /\ IF DoPutAdmits(users[p])
           THEN /\ users' = [users EXCEPT ![p] = Append(@, h)]
                /\ queue' = [queue EXCEPT ![p] = Remove(pq, h)]
                /\ evq' = Schedule(q0, Ev(t, NORMAL, "req", h))
           ELSE /\ users' = users
                /\ queue' = [queue EXCEPT ![p] = pq]
                /\ evq' = q0

\* the rejection and departure paths leaving the with block without a release
ReleasePumpSkipped(c, q0, t) ==
    /\ users' = users
    /\ evq' = q0

\* the with block's exit: Resource.release removes the request from users and
\* schedules the Release event, whose callback is _trigger_put
ReleasePump(c, q0, t) ==
    /\ users' = [users EXCEPT ![gas_pump[c]] = Remove(@, c)]
    /\ evq' = Schedule(q0, Ev(t, NORMAL, "release", gas_pump[c]))

\* the same on the way out of an exception: the pump is released, then the
\* failed process is scheduled, and env.step re-raises when it pops it
ReleasePumpAndFail(c, q0, t) ==
    /\ users' = [users EXCEPT ![gas_pump[c]] = Remove(@, c)]
    /\ evq' = Schedule(Schedule(q0, Ev(t, NORMAL, "release", gas_pump[c])),
                       Ev(t, NORMAL, "proc_fail", c))

\* simulation.py:105 / :119, yield env.timeout(service_time)
StartService(c, s, at, t) ==
    /\ pc' = [pc EXCEPT ![c] = at]
    /\ evq' = Schedule(Tail(evq), Ev(t + s, NORMAL, "svc", c))
    /\ redraws' = 0

\* ------------------------------------------------------------ actions
\* car_generator starts: runs to its first yield (line 140)
GenStart ==
    /\ Ready
    /\ Next1.kind = "gen_init"
    /\ now' = Next1.time
    /\ \E d \in InterArrivalDraws :
         evq' = Schedule(Tail(evq), Ev(now' + d, NORMAL, "gen_timeout", 0))
    /\ UNCHANGED <<users, queue, REMAINING_FUEL, triggered, main_triggered, stats,
                   pc, gas_pump, arrival_time, fuel_required, next_car, redraws,
                   outcome, run_data, reqOrder, resumeOrder, fill, closedAt, maxQueued, calls>>

\* car_generator resumes: creates Car i (line 141; env.process schedules the
\* car's Initialize event, urgent) and yields its next timeout (line 140)
GenTimeout ==
    /\ Ready
    /\ Next1.kind = "gen_timeout"
    /\ now' = Next1.time
    /\ pc' = [pc EXCEPT ![next_car] = "init"]
    /\ arrival_time' = [arrival_time EXCEPT ![next_car] = 0]
    /\ next_car' = next_car + 1
    /\ LET q1 == Schedule(Tail(evq), Ev(now', URGENT, "car_init", next_car))
       IN  IF next_car + 1 < MaxCars
           THEN \E d \in InterArrivalDraws :
                  evq' = Schedule(q1, Ev(now' + d, NORMAL, "gen_timeout", 0))
           ELSE evq' = q1
    /\ UNCHANGED <<users, queue, REMAINING_FUEL, triggered, main_triggered, stats,
                   gas_pump, fuel_required, redraws, outcome, run_data,
                   reqOrder, resumeOrder, fill, closedAt, maxQueued, calls>>

\* Car.run starts (lines 61-83)
CarInit(c) ==
    /\ Ready
    /\ Next1.kind = "car_init" /\ Next1.who = c
    /\ now' = Next1.time
    /\ UNCHANGED <<REMAINING_FUEL, triggered, main_triggered, next_car, outcome,
                   run_data, resumeOrder, fill, closedAt>>
    /\ IF StationClosed
       THEN \* line 64-65
            /\ pc' = [pc EXCEPT ![c] = "closed"]
            /\ evq' = Tail(evq)
            /\ UNCHANGED <<users, queue, stats, gas_pump, arrival_time,
                           fuel_required, redraws, reqOrder, maxQueued, calls>>
       ELSE /\ gas_pump' = [gas_pump EXCEPT ![c] = SelectPump(users, queue)]
            /\ arrival_time' = [arrival_time EXCEPT ![c] = now']
            /\ stats' = add_new_client(stats, now')
            /\ calls' = Append(calls, <<"add", now'>>)
            /\ \E v \in FuelDraws :
                 /\ fuel_required' = [fuel_required EXCEPT ![c] = v]
                 /\ IF InLimits(v)
                    THEN RequestPump(c, SelectPump(users, queue), Tail(evq), now')
                    ELSE /\ pc' = [pc EXCEPT ![c] = "l78"]
                         /\ evq' = Tail(evq)
                         /\ UNCHANGED <<users, queue, redraws, reqOrder, maxQueued>>

\* one more iteration of the loop of lines 78-79
RedrawFuel(c) ==
    /\ outcome = "running"
    /\ pc[c] = "l78"
    /\ \E v \in FuelDraws :
         /\ fuel_required' = [fuel_required EXCEPT ![c] = v]
         /\ IF InLimits(v)
            THEN RequestPump(c, gas_pump[c], evq, now)
            ELSE /\ redraws < MaxRedraws
                 /\ redraws' = redraws + 1
                 /\ UNCHANGED <<pc, users, queue, evq, reqOrder, maxQueued>>
    /\ UNCHANGED <<now, REMAINING_FUEL, triggered, main_triggered, stats, gas_pump,
                   arrival_time, next_car, outcome, run_data, resumeOrder, fill,
                   closedAt, calls>>

\* the request event is popped: Car.run resumes past yield req (lines 83-131)
ReqGranted(c) ==
    /\ Ready
    /\ Next1.kind = "req" /\ Next1.who = c
    /\ now' = Next1.time
    /\ resumeOrder' = [resumeOrder EXCEPT ![gas_pump[c]] = Append(@, c)]
    /\ UNCHANGED <<queue, main_triggered, gas_pump, arrival_time, next_car,
                   outcome, run_data, reqOrder, maxQueued>>
    /\ IF AboveThreshold(REMAINING_FUEL)
       THEN /\ stats' = add_time_on_queue(serve_client(stats, now'),
                                          now' - arrival_time[c])
            /\ calls' = Append(calls, <<"serve", now'>>)
            /\ fuel_required' =
                 [fuel_required EXCEPT ![c] = Granted(REMAINING_FUEL, @)]
            /\ REMAINING_FUEL' = REMAINING_FUEL - fuel_required'[c]
            /\ fill' = [fill EXCEPT ![c] =
                          IF AboveThreshold(REMAINING_FUEL - fuel_required[c])
                          THEN "full" ELSE "partial"]
            /\ \E s \in ServiceDraws :
                 IF s < 0
                 THEN /\ pc' = [pc EXCEPT ![c] =
                                  IF fill'[c] = "full" THEN "l102" ELSE "l116"]
                      /\ evq' = Tail(evq)
                      /\ UNCHANGED redraws
                 ELSE StartService(c, s, IF fill'[c] = "full" THEN "l105" ELSE "l119",
                                   now')
            /\ UNCHANGED <<users, triggered, closedAt>>
       ELSE \* lines 127-131, then the with block releases the pump
            /\ IF triggered
               THEN \* Event.succeed raises RuntimeError: the process fails
                    /\ pc' = [pc EXCEPT ![c] = "raised"]
                    /\ ReleasePumpAndFail(c, Tail(evq), now')
                    /\ UNCHANGED <<triggered, closedAt>>
               ELSE /\ pc' = [pc EXCEPT ![c] = "rejected"]
                    /\ triggered' = TRUE
                    /\ closedAt' = now'
                    /\ ReleasePump(c, Schedule(Tail(evq), Ev(now', NORMAL, "closed", 0)),
                                   now')
            /\ UNCHANGED <<REMAINING_FUEL, stats, fuel_required, redraws, fill, calls>>

\* one more iteration of the loop of lines 102-103 or 116-117
RedrawService(c) ==
    /\ outcome = "running"
    /\ pc[c] \in {"l102", "l116"}
    /\ \E s \in ServiceDraws :
         IF s < 0
         THEN /\ redraws < MaxRedraws
              /\ redraws' = redraws + 1
              /\ UNCHANGED <<pc, evq>>
         ELSE /\ pc' = [pc EXCEPT ![c] = IF pc[c] = "l102" THEN "l105" ELSE "l119"]
              /\ evq' = Schedule(evq, Ev(now + s, NORMAL, "svc", c))
              /\ redraws' = 0
    /\ UNCHANGED <<now, users, queue, REMAINING_FUEL, triggered, main_triggered,
                   stats, gas_pump, arrival_time, fuel_required, next_car, outcome,
                   run_data, reqOrder, resumeOrder, fill, closedAt, maxQueued, calls>>

\* the service timeout is popped: lines 106/120, 122-125 and the pump's release
SvcDone(c) ==
    /\ Ready
    /\ Next1.kind = "svc" /\ Next1.who = c
    /\ now' = Next1.time
    /\ stats' = add_time_on_system(leave_system(stats, now'), now' - arrival_time[c])
    /\ calls' = Append(calls, <<"leave", now'>>)
    /\ pc' = [pc EXCEPT ![c] = "done"]
    /\ ReleasePump(c, Tail(evq), now')
    /\ UNCHANGED <<queue, REMAINING_FUEL, triggered, main_triggered, gas_pump,
                   arrival_time, fuel_required, next_car, redraws, outcome, run_data,
                   reqOrder, resumeOrder, fill, closedAt, maxQueued>>

\* the Release event is popped: its callback _trigger_put admits the head of
\* put_queue
ReleaseDone(p) ==
    /\ Ready
    /\ Next1.kind = "release" /\ Next1.who = p
    /\ now' = Next1.time
    /\ IF queue[p] # <<>> /\ DoPutAdmits(users[p])
       THEN /\ users' = [users EXCEPT ![p] = Append(@, PutHead(queue[p]))]
            /\ queue' = [queue EXCEPT ![p] = Remove(@, PutHead(queue[p]))]
            /\ evq' = Schedule(Tail(evq), Ev(now', NORMAL, "req", PutHead(queue[p])))
       ELSE /\ evq' = Tail(evq)
            /\ UNCHANGED <<users, queue>>
    /\ UNCHANGED <<REMAINING_FUEL, triggered, main_triggered, stats, pc, gas_pump,
                   arrival_time, fuel_required, next_car, redraws, outcome, run_data,
                   reqOrder, resumeOrder, fill, closedAt, maxQueued, calls>>

\* a source event of main_event (line 179) is popped: Condition._check
\* triggers main_event unless it is triggered already
SourceFired(kind) ==
    /\ Ready
    /\ Next1.kind = kind
    /\ now' = Next1.time
    /\ main_triggered' = TRUE
    /\ evq' = IF main_triggered THEN Tail(evq)
              ELSE Schedule(Tail(evq), Ev(now', NORMAL, "main", 0))
    /\ UNCHANGED <<users, queue, REMAINING_FUEL, triggered, stats, pc, gas_pump,
                   arrival_time, fuel_required, next_car, redraws, outcome, run_data,
                   reqOrder, resumeOrder, fill, closedAt, maxQueued, calls>>

\* gas_station_close_event (line 177) is popped
HorizonFired == SourceFired("horizon")

\* not_fuel_remaining left out of the events main_event waits for
ClosedFiredUnwatched ==
    /\ Ready
    /\ Next1.kind = "closed"
    /\ now' = Next1.time
    /\ evq' = Tail(evq)
    /\ UNCHANGED <<users, queue, REMAINING_FUEL, triggered, main_triggered, stats, pc,
                   gas_pump, arrival_time, fuel_required, next_car, redraws, outcome,
                   run_data, reqOrder, resumeOrder, fill, closedAt, maxQueued, calls>>

\* not_fuel_remaining (line 178) is popped
ClosedFired == SourceFired("closed")

\* main_event is popped: env.run(until=main_event) returns (line 181)
MainFired ==
    /\ Ready
    /\ Next1.kind = "main"
    /\ now' = Next1.time
    /\ evq' = Tail(evq)
    /\ outcome' = "stopped"
    /\ UNCHANGED <<users, queue, REMAINING_FUEL, triggered, main_triggered, stats,
                   pc, gas_pump, arrival_time, fuel_required, next_car, redraws,
                   run_data, reqOrder, resumeOrder, fill, closedAt, maxQueued, calls>>

\* a failed car process is popped: nothing defused its exception, so env.step
\* raises it out of env.run (line 181) and the script ends
ProcFail(c) ==
    /\ Ready
    /\ Next1.kind = "proc_fail" /\ Next1.who = c
    /\ now' = Next1.time
    /\ evq' = Tail(evq)
    /\ outcome' = "error"
    /\ UNCHANGED <<users, queue, REMAINING_FUEL, triggered, main_triggered, stats,
                   pc, gas_pump, arrival_time, fuel_required, next_car, redraws,
                   run_data, reqOrder, resumeOrder, fill, closedAt, maxQueued, calls>>

\* lines 184-191: the four averages at env.now
Collect ==
    /\ outcome = "stopped"
    /\ LET d == [clients_on_queue  |-> get_average_clients_on_queue(stats, now),
                 clients_on_system |-> get_average_clients_on_system(stats, now),
                 time_on_queue     |-> get_average_time_on_queue(stats),
                 time_on_system    |-> get_average_time_on_system(stats)]
       IN  IF \E k \in DOMAIN d : Raises(d[k])
           THEN outcome' = "collect_error" /\ UNCHANGED run_data
           ELSE outcome' = "collected" /\ run_data' = d
    /\ UNCHANGED <<now, evq, users, queue, REMAINING_FUEL, triggered, main_triggered,
                   stats, pc, gas_pump, arrival_time, fuel_required, next_car,
                   redraws, reqOrder, resumeOrder, fill, closedAt, maxQueued, calls>>

Next ==
    \/ GenStart
    \/ GenTimeout
    \/ \E c \in Cars : CarInit(c)
    \/ \E c \in Cars : RedrawFuel(c)
    \/ \E c \in Cars : ReqGranted(c)
    \/ \E c \in Cars : RedrawService(c)
    \/ \E c \in Cars : SvcDone(c)
    \/ \E p \in Pumps : ReleaseDone(p)
    \/ HorizonFired
    \/ ClosedFired
    \/ MainFired
    \/ \E c \in Cars : ProcFail(c)
    \/ Collect

Spec == Init /\ [][Next]_vars

\* ------------------------------------------------------------ properties
Count(xs, x) == Cardinality({i \in 1 .. Len(xs) : xs[i] = x})

\* the places (a pump's users or a pump's queue) that hold car c
Places(c) ==
    {<<p, "users">> : p \in {r \in Pumps : Count(users[r], c) > 0}}
    \cup {<<p, "queue">> : p \in {r \in Pumps : Count(queue[r], c) > 0}}

\* C1: every pump has at most one holder, and every vehicle is in at most one
\* place among all the pumps' users and queues, at most once
C1_PumpHeldByAtMostOne ==
    /\ \A p \in Pumps : Len(users[p]) <= capacity
    /\ \A c \in Cars :
         /\ Cardinality(Places(c)) <= 1
         /\ \A p \in Pumps : Count(users[p], c) + Count(queue[p], c) <= 1

\* every pump is held and one of them has a vehicle waiting behind its holder
C1_Witness ==
    /\ \A p \in Pumps : Len(users[p]) = 1
    /\ \E p \in Pumps : Len(queue[p]) >= 1

\* C2: on every pump the vehicles resume past `yield req` in the order of their
\* requests: the resume order is always a prefix of the request order
C2_AdmittedInRequestOrder ==
    \A p \in Pumps :
        /\ Len(resumeOrder[p]) <= Len(reqOrder[p])
        /\ resumeOrder[p] = SubSeq(reqOrder[p], 1, Len(resumeOrder[p]))

\* a pump that had two vehicles in its queue at once, and every vehicle that
\* requested it has resumed
C2_Witness ==
    \E p \in Pumps :
        /\ maxQueued[p] >= 2
        /\ Len(resumeOrder[p]) >= 3
        /\ Len(resumeOrder[p]) = Len(reqOrder[p])

\* C3: a vehicle that arrives while the station-closed signal has not fired
\* picks a pump whose load (holders + waiters) is least in the state it arrives
\* in, the lowest-numbered of those, and that is the pump it requests
C3_LeastLoadedLowestIndex ==
    [][\A c \in Cars :
         (pc[c] = "init" /\ pc'[c] \notin {"init", "closed"}) =>
           LET p == gas_pump'[c] IN
             /\ p \in Pumps
             /\ \A q \in Pumps : Load(users, queue, p) <= Load(users, queue, q)
             /\ \A q \in Pumps : q < p => Load(users, queue, q) > Load(users, queue, p)
             /\ pc'[c] = "l83" => Count(users'[p], c) + Count(queue'[p], c) = 1
      ]_vars

\* a vehicle went to pump 1 and a later one to pump 0, behind a vehicle already
\* there
C3_Witness ==
    \E c1, c2 \in Cars :
        /\ c1 < c2
        /\ gas_pump[c1] = 1 /\ gas_pump[c2] = 0
        /\ pc[c2] = "l83" /\ Count(queue[0], c2) = 1

\* C4: the tank level stays within 0 .. STATION_TANK_SIZE
C4_TankLevelInRange ==
    REMAINING_FUEL >= 0 /\ REMAINING_FUEL <= STATION_TANK_SIZE

\* a partial fill has drained the tank, after a full fill
C4_Witness ==
    /\ \E c \in Cars : fill[c] = "partial"
    /\ \E c \in Cars : fill[c] = "full"
    /\ REMAINING_FUEL < STATION_TANK_SIZE

Resumed(c) == pc[c] = "l83" /\ pc'[c] # "l83"

TurnedBack(c) == pc'[c] \in {"rejected", "raised"}

InService(c) == pc'[c] \in {"l102", "l105", "l116", "l119"}

\* C5 as amended: a vehicle that resumes at its pump is rejected (no fuel
\* deducted, the station-closed signal fired) exactly when the level is not
\* above THRESHOLD percent of the tank, the level being exactly at the threshold
\* included; otherwise it is served and the signal is left as it was
C5_RejectedUnlessAboveThreshold ==
    [][\A c \in Cars :
         Resumed(c) =>
           /\ TurnedBack(c) <=>
                REMAINING_FUEL * 100 <= THRESHOLD * STATION_TANK_SIZE
           /\ TurnedBack(c) =>
                REMAINING_FUEL' = REMAINING_FUEL /\ triggered' /\ fill'[c] = "none"
           /\ ~TurnedBack(c) =>
                InService(c) /\ fill'[c] # "none" /\ triggered' = triggered
      ]_vars

\* C5 as claimed: rejected exactly when the level is below THRESHOLD percent,
\* served when it is at the threshold or above
C5_RejectedOnlyBelowThreshold ==
    [][\A c \in Cars :
         Resumed(c) =>
           (TurnedBack(c) <=> REMAINING_FUEL * 100 < THRESHOLD * STATION_TANK_SIZE)
      ]_vars

\* one vehicle was served and another was rejected at its pump
C5_Witness ==
    \E c, d \in Cars : pc[c] = "rejected" /\ fill[d] # "none" /\ fill[c] = "none"

\* C6: a served vehicle is charged fuel_required, or what is left above the
\* threshold amount when fuel_required would take the tank below it, which then
\* leaves the tank at the threshold amount; its service start decrements the
\* queue count and appends its wait, and the end of its service, full or
\* partial, decrements the system count and appends its sojourn
C6_PartialOrFullFillRecorded ==
    [][\A c \in Cars :
         /\ (Resumed(c) /\ InService(c)) =>
              LET level == REMAINING_FUEL
                  asked == fuel_required[c]
                  floor == (STATION_TANK_SIZE * THRESHOLD) \div 100
              IN  /\ level - asked < floor =>
                        REMAINING_FUEL' = floor /\ fuel_required'[c] = level - floor
                  /\ level - asked >= floor =>
                        REMAINING_FUEL' = level - asked /\ fuel_required'[c] = asked
                  /\ stats'.current_clients_on_queue =
                        stats.current_clients_on_queue - 1
                  /\ stats'.time_on_queue =
                        Append(stats.time_on_queue, now' - arrival_time[c])
                  /\ stats'.last_change_on_queue = now'
         /\ (pc[c] \in {"l105", "l119"} /\ pc'[c] # pc[c]) =>
              /\ pc'[c] = "done"
              /\ stats'.current_clients_on_system =
                    stats.current_clients_on_system - 1
              /\ stats'.time_on_system =
                    Append(stats.time_on_system, now' - arrival_time[c])
              /\ stats'.last_change_on_system = now'
      ]_vars

\* a partially filled vehicle and a fully filled one have both left
C6_Witness ==
    \E c, d \in Cars :
        /\ fill[c] = "partial" /\ pc[c] = "done"
        /\ fill[d] = "full" /\ pc[d] = "done"

\* C7 as claimed: the vehicle that gets the partial fill fires the
\* station-closed signal
C7_PartialFillClosesStation ==
    \A c \in Cars : fill[c] = "partial" => triggered

\* C7 as amended: the partial fill leaves the signal unfired; the signal is
\* fired by the first vehicle that resumes at a pump after the partial fill,
\* which finds the tank at the threshold amount and is rejected; a vehicle that
\* arrives is turned away without entering a queue or a counter exactly when
\* the signal has fired by then, and enters both otherwise
C7_NextAdmittedVehicleClosesStation ==
    [][\A c \in Cars :
         /\ (Resumed(c) /\ fill'[c] = "partial") => triggered' = triggered
         /\ (Resumed(c) /\ \E d \in Cars : fill[d] = "partial") => TurnedBack(c)
         /\ (Resumed(c) /\ ~triggered /\ \E d \in Cars : fill[d] = "partial") =>
              pc'[c] = "rejected" /\ triggered'
         /\ (Resumed(c) /\ ~triggered /\ triggered') =>
              /\ pc'[c] = "rejected"
              /\ REMAINING_FUEL = (STATION_TANK_SIZE * THRESHOLD) \div 100
              /\ \E d \in Cars : fill[d] = "partial"
         /\ (pc[c] = "init" /\ pc'[c] # "init") =>
              /\ pc'[c] = "closed" <=> triggered
              /\ pc'[c] = "closed" => stats' = stats /\ queue' = queue /\ users' = users
              /\ pc'[c] # "closed" =>
                   stats'.current_clients_on_system =
                     stats.current_clients_on_system + 1
      ]_vars

\* after a partial fill a vehicle arrived and joined a pump, another was
\* rejected and fired the signal, and one more was then turned away on arrival
C7_Witness ==
    \E c, d, e, f \in Cars :
        /\ fill[c] = "partial"
        /\ pc[d] = "rejected"
        /\ pc[e] = "closed"
        /\ f > c /\ f # d /\ gas_pump[f] # NoPump /\ fill[f] = "none"

\* C8: a vehicle whose process starts once the station-closed signal has
\* fired returns at once: no pump selected or requested, no add_new_client, no
\* sample, the tank level and every pump's users and queue unchanged
C8_ArrivalAfterClosureChangesNothing ==
    [][\A c \in Cars :
         (pc[c] = "init" /\ pc'[c] # "init" /\ triggered) =>
           /\ pc'[c] = "closed"
           /\ gas_pump'[c] = NoPump
           /\ UNCHANGED <<users, queue, stats, REMAINING_FUEL, gas_pump, arrival_time,
                          fuel_required, triggered, main_triggered, reqOrder, calls>>
      ]_vars

\* a vehicle was turned away on arrival while other vehicles hold or wait for
\* pumps
C8_Witness ==
    /\ \E c \in Cars : pc[c] = "closed"
    /\ \E p \in Pumps : users[p] # <<>> \/ queue[p] # <<>>

\* C9: the clock never passes SIM_TIME, and once the run has ended env.now is
\* SIM_TIME when the signal never fired, and the time the signal fired otherwise
C9_StopsAtHorizonOrClosure ==
    /\ now <= SIM_TIME
    /\ outcome # "running" =>
         /\ closedAt = Never => now = SIM_TIME
         /\ closedAt # Never => now = closedAt

\* the run was stopped by the signal before the horizon, with events still
\* scheduled before the horizon
C9_Witness ==
    /\ outcome = "stopped"
    /\ closedAt # Never /\ closedAt < SIM_TIME
    /\ \E i \in 1 .. Len(evq) : evq[i].kind # "horizon" /\ evq[i].time < SIM_TIME

\* ---- the occupancy step functions, integrated from the calls themselves
QueueStep(op) == IF op = "add" THEN 1 ELSE IF op = "serve" THEN -1 ELSE 0

SystemStep(op) == IF op = "add" THEN 1 ELSE IF op = "leave" THEN -1 ELSE 0

\* the occupancy after the first k calls
RECURSIVE OccupancyAfter(_, _, _)
OccupancyAfter(tr, k, which) ==
    IF k = 0 THEN 0
    ELSE OccupancyAfter(tr, k - 1, which)
         + (IF which = "queue" THEN QueueStep(tr[k][1]) ELSE SystemStep(tr[k][1]))

\* the time of call k; 0 before the first call, T after the last
TimeOfCall(tr, k, T) == IF k = 0 THEN 0 ELSE IF k > Len(tr) THEN T ELSE tr[k][2]

\* the integral of the occupancy from call k to T
RECURSIVE IntegralFrom(_, _, _, _)
IntegralFrom(tr, k, T, which) ==
    IF k > Len(tr) THEN 0
    ELSE OccupancyAfter(tr, k, which) * (TimeOfCall(tr, k + 1, T) - TimeOfCall(tr, k, T))
         + IntegralFrom(tr, k + 1, T, which)

Integral(tr, T, which) == IntegralFrom(tr, 0, T, which)

\* a / b = c / d
SameQuotient(x, y) == x[1] * y[2] = y[1] * x[2]

\* C10: the two averages the driver collects at env.now are the integrals of the
\* queue and system occupancy over [0, env.now] divided by env.now, also when
\* vehicles are still queued or in service at env.now
C10_AveragesIntegrateToQueryTime ==
    outcome = "collected" =>
        /\ SameQuotient(run_data.clients_on_queue,
                        <<Integral(calls, now, "queue"), now>>)
        /\ SameQuotient(run_data.clients_on_system,
                        <<Integral(calls, now, "system"), now>>)

\* ---- the driver's metric collection
\* the step of lines 184-191
Collected == outcome = "stopped" /\ outcome' # "stopped"

\* C11: get_average_time_on_queue and get_average_time_on_system end in an error
\* when no sample of theirs was recorded, and the accumulator is left as it was;
\* so the collection of a replication that stopped before a vehicle started or
\* completed its service fails and stores no metrics
C11_EmptySamplesRaise ==
    [][Collected =>
          /\ stats.time_on_queue = <<>> => Raises(get_average_time_on_queue(stats))
          /\ stats.time_on_system = <<>> => Raises(get_average_time_on_system(stats))
          /\ (stats.time_on_queue = <<>> \/ stats.time_on_system = <<>>)
                => outcome' = "collect_error" /\ run_data' = run_data
          /\ stats' = stats]_vars

\* the collection failed at a positive env.now in a replication in which a
\* vehicle arrived and none had started its service
C11_Witness ==
    /\ outcome = "collect_error"
    /\ now > 0
    /\ stats.time_on_queue = <<>>
    /\ stats.current_clients_on_system > 0

\* the collection failed although a vehicle had started its service: none had
\* completed it
C11_WitnessInService ==
    /\ outcome = "collect_error"
    /\ now > 0
    /\ stats.time_on_queue # <<>>
    /\ stats.time_on_system = <<>>

\* C13: accum_queue changes only in an operation that changes
\* current_clients_on_queue; that operation adds (now - last_change_on_queue)
\* times the count before the change and sets last_change_on_queue to now; the
\* same for accum_system; so after every operation accum_queue is the integral of
\* the queue count over [0, last_change_on_queue] and accum_system that of the
\* system count over [0, last_change_on_system]
C13_AccumulatorsIntegrateToLastChange ==
    [][LET s == stats
           n == stats'
       IN  /\ n.accum_queue # s.accum_queue
                => n.current_clients_on_queue # s.current_clients_on_queue
           /\ n.current_clients_on_queue # s.current_clients_on_queue
                => /\ n.accum_queue = s.accum_queue
                          + (now' - s.last_change_on_queue) * s.current_clients_on_queue
                   /\ n.last_change_on_queue = now'
           /\ n.accum_system # s.accum_system
                => n.current_clients_on_system # s.current_clients_on_system
           /\ n.current_clients_on_system # s.current_clients_on_system
                => /\ n.accum_system = s.accum_system
                          + (now' - s.last_change_on_system) * s.current_clients_on_system
                   /\ n.last_change_on_system = now'
           /\ n.accum_queue = Integral(calls', n.last_change_on_queue, "queue")
           /\ n.accum_system = Integral(calls', n.last_change_on_system, "system")
           /\ n.current_clients_on_queue = OccupancyAfter(calls', Len(calls'), "queue")
           /\ n.current_clients_on_system = OccupancyAfter(calls', Len(calls'), "system")
      ]_vars

\* both accumulators have grown, over different spans: a vehicle waited in a
\* queue and one left after a service of positive length
C13_Witness ==
    /\ stats.accum_queue > 0
    /\ stats.accum_system > stats.accum_queue
    /\ stats.last_change_on_queue # stats.last_change_on_system
    /\ stats.time_on_system # <<>>

\* C14: not_fuel_remaining is fired at most once in a replication: no vehicle
\* reaches the rejection branch and calls succeed() when the signal is already
\* triggered, also when a second vehicle was admitted to a pump at the virtual
\* time of the first rejection, and the run ends by main_event, never by an error
C14_SignalFiredAtMostOnce ==
    /\ \A c \in Cars : pc[c] # "raised"
    /\ outcome # "error"

\* ---- the pump after its holder's process has ended
\* the process of c ran to its end after it was admitted to a pump
Finished(c) == pc[c] \in {"done", "rejected", "raised"}

\* a Release event of pump p is waiting in the event queue
ReleasePending(p) ==
    \E i \in 1 .. Len(evq) : evq[i].kind = "release" /\ evq[i].who = p

\* C15: a vehicle admitted to a pump whose process ran to its end (served in
\* full, served in part, or rejected) has released the pump by then, so no pump
\* is held by a finished vehicle; the vehicle queued behind it is admitted next:
\* a free pump with a queue always has its Release event pending, and when that
\* event is popped the head of the queue becomes the holder and is scheduled to
\* resume
C15_FinishedVehicleReleasedItsPump ==
    [][/\ \A c \in Cars : Finished(c)' =>
              \A p \in Pumps : Count(users'[p], c) = 0 /\ Count(queue'[p], c) = 0
       /\ \A p \in Pumps : (queue'[p] # <<>> /\ users'[p] = <<>>) => ReleasePending(p)'
       /\ \A p \in Pumps :
              (Ready /\ Next1.kind = "release" /\ Next1.who = p
                  /\ queue[p] # <<>> /\ users[p] = <<>>)
              => /\ users'[p] = <<Head(queue[p])>>
                 /\ queue'[p] = Tail(queue[p])
                 /\ \E i \in 1 .. Len(evq') :
                        evq'[i].kind = "req" /\ evq'[i].who = Head(queue[p])
      ]_vars

\* a rejected vehicle's pump went to the vehicle that queued behind it
C15_Witness ==
    \E c, d \in Cars :
        /\ c # d
        /\ pc[c] = "rejected"
        /\ gas_pump[d] = gas_pump[c]
        /\ users[gas_pump[c]] = <<d>>

\* a served vehicle's pump went to the vehicle that queued behind it, which has
\* resumed
C15_WitnessServed ==
    \E c, d \in Cars :
        /\ c # d
        /\ pc[c] = "done"
        /\ gas_pump[d] = gas_pump[c]
        /\ users[gas_pump[c]] = <<d>>
        /\ pc[d] \in {"l105", "l119"}
        /\ arrival_time[d] < now

\* C16: every amount deducted from REMAINING_FUEL is >= 0: the tank changes
\* only when a vehicle is resumed at its pump, by that vehicle's fuel_required,
\* and the partial-fill grant (the level minus the threshold amount) is never
\* negative, also when several pumps admit vehicles at the same virtual time
C16_DeductionsNonNegative ==
    [][/\ REMAINING_FUEL' # REMAINING_FUEL
            => \E c \in Cars :
                   /\ Resumed(c)
                   /\ fill'[c] # "none"
                   /\ REMAINING_FUEL - REMAINING_FUEL' = fuel_required'[c]
       /\ \A c \in Cars :
              (Resumed(c) /\ fill'[c] # "none")
              => /\ fuel_required'[c] >= 0
                 /\ REMAINING_FUEL - REMAINING_FUEL' >= 0
      ]_vars

\* two pumps admitted vehicles at the same virtual time; one was served in
\* full, the other received the partial fill
C16_Witness ==
    \E c, d \in Cars :
        /\ gas_pump[c] # gas_pump[d]
        /\ arrival_time[c] = now /\ arrival_time[d] = now
        /\ fill[d] = "full" /\ pc[d] \in {"l102", "l105"}
        /\ fill[c] = "partial" /\ pc[c] \in {"l116", "l119"}
        /\ fuel_required[c] > 0
        /\ REMAINING_FUEL = ThresholdAmount

\* C17: each resampling loop (lines 78, 102, 116) stops after a fixed maximum
\* number of redraws of its own: it never runs as far as MaxRedraws, the only
\* limit on it here, which the source does not have
C17_ResamplingStopsBeforeCap == redraws < MaxRedraws

\* C18: in every reachable state 0 <= current_clients_on_queue <=
\* current_clients_on_system, and the vehicles counted in the system but not in
\* the queue are never more than NUM_PUMPS
C18_QueueWithinSystemWithinPumps ==
    /\ 0 <= stats.current_clients_on_queue
    /\ stats.current_clients_on_queue <= stats.current_clients_on_system
    /\ stats.current_clients_on_system - stats.current_clients_on_queue <= NUM_PUMPS

\* every pump serves a vehicle while others wait
C18_Witness ==
    /\ stats.current_clients_on_system - stats.current_clients_on_queue = NUM_PUMPS
    /\ stats.current_clients_on_queue >= 2
    /\ \A p \in Pumps : \E c \in Cars : users[p] = <<c>> /\ pc[c] \in {"l105", "l119"}

\* ---- the counts against the pumps
RECURSIVE AtPumps(_)
\* the vehicles holding or queued for pumps 0 .. p
AtPumps(p) ==
    IF p < 0 THEN 0 ELSE Len(users[p]) + Len(queue[p]) + AtPumps(p - 1)

\* C19: whenever no vehicle process is in the middle of a step,
\* current_clients_on_system is the number of vehicles holding or queued for a
\* pump, so a vehicle whose process has ended, served or rejected at the pump,
\* is counted neither in current_clients_on_queue nor in
\* current_clients_on_system
C19_SystemCountIsVehiclesAtPumps ==
    ~MidStep =>
        /\ stats.current_clients_on_system = AtPumps(NUM_PUMPS - 1)
        /\ stats.current_clients_on_queue
              = Cardinality({c \in Cars : pc[c] = "l83"})

\* C20: within a replication REMAINING_FUEL never increases and never falls
\* below the threshold amount STATION_TANK_SIZE * THRESHOLD / 100, and once it
\* equals the threshold amount nothing more is deducted
C20_TankOnlyFallsToThreshold ==
    [][/\ REMAINING_FUEL' <= REMAINING_FUEL
       /\ REMAINING_FUEL' >= (STATION_TANK_SIZE * THRESHOLD) \div 100
       /\ REMAINING_FUEL = (STATION_TANK_SIZE * THRESHOLD) \div 100
            => REMAINING_FUEL' = REMAINING_FUEL
      ]_vars

\* the tank fell in two deductions to the threshold amount, and a vehicle
\* admitted after that was turned back with the level unchanged
C20_Witness ==
    /\ REMAINING_FUEL = (STATION_TANK_SIZE * THRESHOLD) \div 100
    /\ \E c, d, e \in Cars :
          /\ fill[c] = "full" /\ fill[d] = "partial"
          /\ pc[e] = "rejected" /\ fill[e] = "none"


====
